---- MODULE Spec2Model ----
(***************************************************************************)
(* Model of the support bundle manager (package manager):                  *)
(*   - SupportBundleManager.Run and its five phases (the control thread),  *)
(*   - collectNodeBundles / refreshNodes / completeNode (node tracking),   *)
(*   - the node bundle upload handler that calls verifyNodeBundle and      *)
(*     completeNode on the HTTP server's goroutines.                       *)
(* m.ch is an unbuffered Go channel: a send completes only together with   *)
(* a receive; a send on a nil channel blocks forever.                      *)
(***************************************************************************)
EXTENDS Integers, Sequences, FiniteSets, TLC

\* ---------------------------------------------------------------- bounds
\* number of containers (one pod each) whose log is exported per namespace
MaxContainers == 1
\* number of resources the discovery client returns per namespace
MaxDiscovered == 1
\* number of cluster nodes the node selector can match
NumNodes == 2
\* number of upload requests the HTTP server receives in one run
MaxUploads == 2

Nodes == 1..NumNodes
\* a node name that no cluster node has
UnknownNode == NumNodes + 1
NodeNames == Nodes \cup {UnknownNode}
Uploads == 1..MaxUploads

\* ------------------------------------------------------------- constants
Nil == "nil"
\* optional values: None, or Some(x)
None == <<>>
Some(x) == <<x>>
Phases == <<"Init", "ClusterBundle", "NodeBundle", "Packaging", "Done">>
NumPhases == Len(Phases)

ErrNoNodes == "no nodes are found"
ErrListNodes == "cannot list nodes"
ErrCreateAgents == "cannot create agent daemonset"
ErrCleanup == "fail to cleanup agent daemonset"
ErrZipReader == "zip: not a valid zip file"

VARIABLES
    config,         \* the exported fields set before Run (NamespaceList, BundleName, ...)
    ctl,            \* position of the control thread inside Run
    phaseIdx,       \* loop index i of Run (1-based)
    ret,            \* the error the current phase function returns (Nil: none)
    status,         \* m.status (ManagerStatus)
    context,        \* m.context: "nil", "active", "cancelled"
    serverStarted,  \* go s.Run(m) has been executed
    bundleFileName, \* m.bundleFileName
    archive,        \* number of times the zip command produced the archive
    ch,             \* m.ch: "nil" or "chan"
    done,           \* m.done
    nodesLock,      \* m.nodesLock: 0 free, else the upload holding it
    expectedNodes,  \* m.expectedNodes (a nil map and an empty map are both {})
    listed,         \* nodes.Items of refreshNodes (None before the listing succeeded)
    toInsert,       \* nodes refreshNodes has not yet inserted
    agents,         \* the agent daemonset: "none", "created", "create_failed", "deleted", "delete_failed"
    hpc,            \* position of each upload handler
    hnode,          \* node name of each upload
    hfile,          \* the file of each upload: "zip" (a zip archive) or "empty"
    hremoved,       \* the running completeNode call of the upload deleted its node
    entered,        \* history: phases whose action was started, in order
    sendCount,      \* history: number of sends on m.ch started
    received,       \* history: expectedNodes and called at the moment <-m.ch returned (None before)
    removedCount,   \* history: per node, number of deletions from expectedNodes
    called,         \* history: cluster nodes for which a verified upload called completeNode
    rejected,       \* history: nodes of which an upload was rejected while they were expected
    stateRead,      \* history: what m.state.GetState returned in phaseInit (None before)
    cbIdx,          \* GenerateClusterBundle: index of the next export item (0: not exporting)
    errLog,         \* bundleGenerationError.log: None, or Some(number of lines written)
    last            \* history: the last export item processed, its failure and the lines
                    \* it wrote to errLog (None before)

vars == <<config, ctl, phaseIdx, ret, status, context, serverStarted, bundleFileName,
          archive, ch, done, nodesLock, expectedNodes, listed, toInsert, agents,
          hpc, hnode, hfile, hremoved, entered, sendCount, received, removedCount,
          called, rejected, stateRead, cbIdx, errLog, last>>

ctlVars == <<ctl, phaseIdx, ret, status, context, serverStarted, bundleFileName, archive>>
trackVars == <<ch, done, nodesLock, expectedNodes, listed, toInsert, agents>>
handlerVars == <<hpc, hnode, hfile, hremoved>>
clusterVars == <<cbIdx, errLog, last>>
recordVars == <<stateRead, clusterVars>>
histVars == <<entered, sendCount, received, removedCount, called, rejected, recordVars>>

\* ------------------------------------------------------------ ManagerStatus
SetPhase(s, p) == [s EXCEPT !.phase = p]
SetError(s, e) == [s EXCEPT !.error = e]
SetProgress(s, p) == [s EXCEPT !.progress = p]
SetFileinfo(s, name, size) == [s EXCEPT !.filename = name, !.filesize = size]

ConfigValues == {"", "set"}
Configs == [NamespaceList : ConfigValues, BundleName : ConfigValues,
            ManagerPodIP : ConfigValues, ImageName : ConfigValues,
            ImagePullPolicy : ConfigValues]

Init ==
    /\ config \in Configs
    /\ ctl = "phase_start"
    /\ phaseIdx = 1
    /\ ret = Nil
    /\ status = [phase |-> "", progress |-> 0, error |-> "", filename |-> "", filesize |-> 0]
    /\ context = "nil"
    /\ serverStarted = FALSE
    /\ bundleFileName = ""
    /\ archive = 0
    /\ ch = "nil"
    /\ done = FALSE
    /\ nodesLock = 0
    /\ expectedNodes = {}
    /\ listed = None
    /\ toInsert = {}
    /\ agents = "none"
    /\ hpc = [h \in Uploads |-> "idle"]
    /\ hnode = [h \in Uploads |-> UnknownNode]
    /\ hfile = [h \in Uploads |-> "zip"]
    /\ hremoved = [h \in Uploads |-> FALSE]
    /\ entered = <<>>
    /\ sendCount = 0
    /\ received = None
    /\ removedCount = [n \in NodeNames |-> 0]
    /\ called = {}
    /\ rejected = {}
    /\ stateRead = None
    /\ cbIdx = 0
    /\ errLog = None
    /\ last = None

\* ------------------------------------------------------------------- Run
\* the phase table with the functions of NodeBundle and Packaging exchanged
PhaseBody_Swapped(i) ==
    CASE i = 1 -> "init_check"
      [] i = 2 -> "cluster_bundle"
      [] i = 3 -> "packaging"
      [] i = 4 -> "nb_makech"
      [] i = 5 -> "phase_done"

\* m.status.SetPhase(phase.Name); phase.Run() is entered
PhaseBody(i) ==
    CASE i = 1 -> "init_check"
      [] i = 2 -> "cluster_bundle"
      [] i = 3 -> "nb_makech"
      [] i = 4 -> "packaging"
      [] i = 5 -> "phase_done"

Run_SetPhase ==
    /\ ctl = "phase_start"
    /\ status' = SetPhase(status, Phases[phaseIdx])
    /\ entered' = Append(entered, Phases[phaseIdx])
    /\ ctl' = PhaseBody(phaseIdx)
    /\ UNCHANGED <<config, phaseIdx, ret, context, serverStarted, bundleFileName, archive>>
    /\ UNCHANGED <<trackVars, handlerVars, sendCount, received, removedCount, called, rejected, recordVars>>

\* the loop body after phase.Run() returned an error, without the break
Run_PhaseFailed_NoBreak ==
    /\ ctl = "phase_ret"
    /\ ret # Nil
    /\ status' = SetError(status, ret)
    /\ ret' = Nil
    /\ IF phaseIdx < NumPhases
          THEN ctl' = "phase_start" /\ phaseIdx' = phaseIdx + 1
          ELSE ctl' = "run_ctx" /\ phaseIdx' = phaseIdx
    /\ UNCHANGED <<config, context, serverStarted, bundleFileName, archive>>
    /\ UNCHANGED <<trackVars, handlerVars, histVars>>

\* phase.Run() returned an error: SetError and break
Run_PhaseFailed ==
    /\ ctl = "phase_ret"
    /\ ret # Nil
    /\ status' = SetError(status, ret)
    /\ ret' = Nil
    /\ ctl' = "run_ctx"
    /\ UNCHANGED <<config, phaseIdx, context, serverStarted, bundleFileName, archive>>
    /\ UNCHANGED <<trackVars, handlerVars, histVars>>

\* the progress computed from the 0-based index i instead of i + 1
Progress_ZeroBased(i) == (100 * (i - 1)) \div NumPhases

\* progress := 100 * (i + 1) / len(phases), i 0-based
Progress(i) == (100 * i) \div NumPhases

\* phase.Run() returned nil: SetProgress and the next iteration
Run_PhaseSucceeded ==
    /\ ctl = "phase_ret"
    /\ ret = Nil
    /\ status' = SetProgress(status, Progress(phaseIdx))
    /\ IF phaseIdx < NumPhases
          THEN ctl' = "phase_start" /\ phaseIdx' = phaseIdx + 1
          ELSE ctl' = "run_ctx" /\ phaseIdx' = phaseIdx
    /\ UNCHANGED <<config, ret, context, serverStarted, bundleFileName, archive>>
    /\ UNCHANGED <<trackVars, handlerVars, histVars>>

\* <-m.context.Done() with m.context never set: nil interface, the process panics
Run_ContextNil ==
    /\ ctl = "run_ctx"
    /\ context = "nil"
    /\ ctl' = "crashed"
    /\ UNCHANGED <<config, phaseIdx, ret, status, context, serverStarted, bundleFileName, archive>>
    /\ UNCHANGED <<trackVars, handlerVars, histVars>>

\* <-m.context.Done() returns once the context is cancelled; Run returns nil
Run_ContextDone ==
    /\ ctl = "run_ctx"
    /\ context = "cancelled"
    /\ ctl' = "returned"
    /\ UNCHANGED <<config, phaseIdx, ret, status, context, serverStarted, bundleFileName, archive>>
    /\ UNCHANGED <<trackVars, handlerVars, histVars>>

\* the signal handler of signals.SetupSignalHandler cancels the context
Shutdown ==
    /\ context = "active"
    /\ ctl \notin {"returned", "crashed"}
    /\ context' = "cancelled"
    /\ UNCHANGED <<config, ctl, phaseIdx, ret, status, serverStarted, bundleFileName, archive>>
    /\ UNCHANGED <<trackVars, handlerVars, histVars>>

\* ------------------------------------------------------------- phaseInit
\* m.Namespaces = strings.Split(m.NamespaceList, ","): one element, "" for ""
Namespaces(c) == <<c.NamespaceList>>

\* check() without the test of ImagePullPolicy
check_NoPullPolicyTest(c, mkdirOk) ==
    IF Len(Namespaces(c)) = 0 \/ Namespaces(c)[1] = "" THEN "namespace is not specified"
    ELSE IF c.BundleName = "" THEN "support bundle name is not specified"
    ELSE IF c.ManagerPodIP = "" THEN "manager pod IP is not specified"
    ELSE IF c.ImageName = "" THEN "image name is not specified"
    ELSE IF ~mkdirOk THEN "mkdir failed"
    ELSE Nil

\* check(): the first missing field decides the error
check(c, mkdirOk) ==
    IF Len(Namespaces(c)) = 0 \/ Namespaces(c)[1] = "" THEN "namespace is not specified"
    ELSE IF c.BundleName = "" THEN "support bundle name is not specified"
    ELSE IF c.ManagerPodIP = "" THEN "manager pod IP is not specified"
    ELSE IF c.ImageName = "" THEN "image name is not specified"
    ELSE IF c.ImagePullPolicy = "" THEN "image pull policy is not specified"
    ELSE IF ~mkdirOk THEN "mkdir failed"
    ELSE Nil

phaseInit_Check ==
    /\ ctl = "init_check"
    /\ \E mkdirOk \in BOOLEAN :
          LET err == check(config, mkdirOk) IN
          IF err # Nil
             THEN ret' = err /\ ctl' = "phase_ret"
             ELSE ret' = ret /\ ctl' = "init_clients"
    /\ UNCHANGED <<config, phaseIdx, status, context, serverStarted, bundleFileName, archive>>
    /\ UNCHANGED <<trackVars, handlerVars, histVars>>

\* m.context = signals.SetupSignalHandler(...); initClients()
phaseInit_Clients ==
    /\ ctl = "init_clients"
    /\ context' = "active"
    /\ \E err \in {Nil, "cannot init clients"} :
          IF err # Nil
             THEN ret' = err /\ ctl' = "phase_ret"
             ELSE ret' = ret /\ ctl' = "init_state"
    /\ UNCHANGED <<config, phaseIdx, status, serverStarted, bundleFileName, archive>>
    /\ UNCHANGED <<trackVars, handlerVars, histVars>>

BundleStates == {"generating", "ready", "error", ""}

\* phaseInit accepting every state that GetState returns without an error
phaseInit_StateResult_NoStateTest(state, err) ==
    IF err # Nil THEN err ELSE Nil

\* the result of phaseInit after m.state.GetState returned (state, err)
phaseInit_StateResult(state, err) ==
    IF err # Nil THEN err
    ELSE IF state # "generating" THEN "invalid start state"
    ELSE Nil

\* GetState, the state test, and go s.Run(m)
phaseInit_State ==
    /\ ctl = "init_state"
    /\ \E state \in BundleStates, err \in {Nil, "cannot get state"} :
          LET r == phaseInit_StateResult(state, err) IN
          /\ ret' = r
          /\ serverStarted' = (r = Nil)
          /\ stateRead' = Some([state |-> state, err |-> err])
    /\ ctl' = "phase_ret"
    /\ UNCHANGED <<config, phaseIdx, status, context, bundleFileName, archive>>
    /\ UNCHANGED <<trackVars, handlerVars, clusterVars>>
    /\ UNCHANGED <<entered, sendCount, received, removedCount, called, rejected>>

\* ------------------------------------------------- phaseCollectClusterBundle
ClusterBundleErrors == {"cannot get harvester namespace", "cannot get kubernetes version",
                        "cannot get support bundle", "cannot create error log"}

phaseCollectClusterBundle ==
    /\ ctl = "cluster_bundle"
    /\ \E err \in {Nil} \cup ClusterBundleErrors :
          IF err # Nil
             THEN ret' = "fail to generate cluster bundle" /\ bundleFileName' = bundleFileName
             ELSE ret' = Nil /\ bundleFileName' = "supportbundle.zip"
    /\ ctl' = "phase_ret"
    /\ UNCHANGED <<config, phaseIdx, status, context, serverStarted, archive>>
    /\ UNCHANGED <<trackVars, handlerVars, histVars>>

\* ---------------------------------------------------- GenerateClusterBundle
\* The body of GenerateClusterBundle, of which phaseCollectClusterBundle above
\* keeps the error only: the four lookups, then one export item after the
\* other (metadata.yaml, the resource lists, the discovered resources, the pod
\* logs), each of which can fail at any of its steps.
RECURSIVE Flatten(_)
Flatten(ss) == IF ss = <<>> THEN <<>> ELSE Head(ss) \o Flatten(Tail(ss))

Item(op, ns, name) == [op |-> op, ns |-> ns, name |-> name]

\* the namespaces of the Kubernetes resources and of the pod logs
K8sNamespaces(c) == <<"default", "kube-system", "cattle-system">> \o Namespaces(c)
\* the namespaces of the discovered (custom) resources
CRNamespaces(c) == <<"default">> \o Namespaces(c)

ClusterKinds == <<"nodes", "volumeattachments", "nodemetrics">>
NamespacedKinds == <<"events", "pods", "services", "deployments", "daemonsets",
                     "statefulsets", "jobs", "cronjobs", "configmaps", "podmetrics">>

\* the getListAndEncodeToYAML calls of generateKubernetesClusterYAMLs
generateKubernetesClusterYAMLs ==
    [i \in 1..Len(ClusterKinds) |-> Item("list", "", ClusterKinds[i])]

\* the getListAndEncodeToYAML calls of generateKubernetesNamespacedYAMLs(ns)
generateKubernetesNamespacedYAMLs(ns) ==
    [i \in 1..Len(NamespacedKinds) |-> Item("list", ns, NamespacedKinds[i])]

\* the encodeToYAMLFile calls of generateDiscoveredNamespacedYAMLs(ns)
generateDiscoveredNamespacedYAMLs(ns) ==
    [d \in 1..MaxDiscovered |-> Item("discovered", ns, "resource")]

generateSupportBundleYAMLs(c) ==
    generateKubernetesClusterYAMLs
    \o Flatten([i \in 1..Len(K8sNamespaces(c)) |->
                   generateKubernetesNamespacedYAMLs(K8sNamespaces(c)[i])])
    \o Flatten([i \in 1..Len(CRNamespaces(c)) |->
                   generateDiscoveredNamespacedYAMLs(CRNamespaces(c)[i])])

\* per namespace: the pod list, then the log of every container
generateSupportBundleLogs(c) ==
    Flatten([i \in 1..Len(K8sNamespaces(c)) |->
                <<Item("podlist", K8sNamespaces(c)[i], "")>>
                \o [k \in 1..MaxContainers |-> Item("log", K8sNamespaces(c)[i], "container")]])

\* the export items of GenerateClusterBundle in the order of the code
WorkList(c) ==
    <<Item("meta", "", "metadata.yaml")>>
    \o generateSupportBundleYAMLs(c)
    \o generateSupportBundleLogs(c)

\* the export items of every configuration (computed once)
WorkLists == [c \in Configs |-> WorkList(c)]

\* the step at which encodeToYAMLFile can fail: a runtime.Object is serialized
\* to JSON, parsed, and written item by item; any other value goes through the
\* YAML encoder
EncodeFailures(isRuntimeObject) ==
    IF isRuntimeObject
       THEN {Nil, "mkdir", "open", "encode", "parse", "convert", "write"}
       ELSE {Nil, "mkdir", "open", "yaml_encode", "yaml_close"}

\* lines encodeToYAMLFile writes to errLog: its deferred function reports the
\* function's own err, which the JSON parser and the item loop do not assign
\* (they declare an err of their own and report to the process log)
encodeToYAMLFile(fail) ==
    IF fail \in {"mkdir", "open", "encode", "yaml_encode", "yaml_close"} THEN 1 ELSE 0

\* lines getListAndEncodeToYAML writes to errLog: the list failure, then
\* whatever encodeToYAMLFile, which is called in any case, reports
getListAndEncodeToYAML(listFailed, fail) ==
    (IF listFailed THEN 1 ELSE 0) + encodeToYAMLFile(fail)

\* lines streamLogToFile writes to errLog
streamLogToFile(fail) ==
    IF fail \in {"mkdir", "create", "copy"} THEN 1 ELSE 0

\* the control state with which Run calls phaseCollectClusterBundle
ClusterInit ==
    /\ config \in {c \in Configs : check(c, TRUE) = Nil}
    /\ ctl = "cluster_bundle"
    /\ phaseIdx = 2
    /\ ret = Nil
    /\ status = [phase |-> "ClusterBundle", progress |-> 20, error |-> "",
                 filename |-> "", filesize |-> 0]
    /\ context = "active"
    /\ serverStarted = TRUE
    /\ bundleFileName = ""
    /\ archive = 0
    /\ ch = "nil"
    /\ done = FALSE
    /\ nodesLock = 0
    /\ expectedNodes = {}
    /\ listed = None
    /\ toInsert = {}
    /\ agents = "none"
    /\ hpc = [h \in Uploads |-> "idle"]
    /\ hnode = [h \in Uploads |-> UnknownNode]
    /\ hfile = [h \in Uploads |-> "zip"]
    /\ hremoved = [h \in Uploads |-> FALSE]
    /\ entered = <<"Init", "ClusterBundle">>
    /\ sendCount = 0
    /\ received = None
    /\ removedCount = [n \in NodeNames |-> 0]
    /\ called = {}
    /\ rejected = {}
    /\ stateRead = Some([state |-> "generating", err |-> Nil])
    /\ cbIdx = 0
    /\ errLog = None
    /\ last = None

\* what an export step leaves alone
ClusterUnchanged ==
    /\ UNCHANGED <<config, phaseIdx, status, context, serverStarted, archive>>
    /\ UNCHANGED <<trackVars, handlerVars>>
    /\ UNCHANGED <<entered, sendCount, received, removedCount, called, rejected, stateRead>>

\* GetNamespace, GetKubernetesVersion, GetSupportBundle and os.Create of the
\* error log: the first failure makes GenerateClusterBundle return the error,
\* which phaseCollectClusterBundle wraps
GenerateClusterBundle_Lookups ==
    /\ ctl = "cluster_bundle"
    /\ \E err \in {Nil} \cup ClusterBundleErrors :
          IF err # Nil
             THEN /\ ret' = "fail to generate cluster bundle"
                  /\ ctl' = "phase_ret"
                  /\ last' = Some([idx |-> 0, op |-> "lookup", failure |-> err, lines |-> 0])
                  /\ UNCHANGED <<cbIdx, errLog>>
             ELSE /\ ret' = ret
                  /\ ctl' = "cb_export"
                  /\ cbIdx' = 1
                  /\ errLog' = Some(0)
                  /\ last' = last
    /\ bundleFileName' = bundleFileName
    /\ ClusterUnchanged

\* the export item at cbIdx has been processed: it failed with `fail` (Nil: it
\* did not) and wrote `lines` lines to errLog; the export goes on with the next
\* item unless the function returns
Exported(fail, lines, returns) ==
    /\ last' = Some([idx |-> cbIdx, op |-> WorkLists[config][cbIdx].op,
                     failure |-> fail, lines |-> lines])
    /\ errLog' = Some(errLog[1] + lines)
    /\ cbIdx' = cbIdx + 1
    /\ ctl' = IF returns \/ cbIdx = Len(WorkLists[config]) THEN "cb_return" ELSE "cb_export"
    /\ UNCHANGED <<ret, bundleFileName>>
    /\ ClusterUnchanged

AtItem(op) ==
    /\ ctl = "cb_export"
    /\ cbIdx \in 1..Len(WorkLists[config])
    /\ WorkLists[config][cbIdx].op = op

\* encodeToYAMLFile(bundleMeta, metaFile, errLog, nil)
GenerateClusterBundle_Metadata ==
    /\ AtItem("meta")
    /\ \E fail \in EncodeFailures(FALSE) :
          Exported(fail, encodeToYAMLFile(fail), FALSE)

\* one getListAndEncodeToYAML call: when the list call fails its result is
\* encoded all the same
generateSupportBundleYAMLs_List ==
    /\ AtItem("list")
    /\ \E listFailed \in BOOLEAN :
          \E isRuntimeObject \in (IF listFailed THEN BOOLEAN ELSE {TRUE}) :
             \E fail \in EncodeFailures(isRuntimeObject) :
                Exported(IF listFailed THEN "list" ELSE fail,
                         getListAndEncodeToYAML(listFailed, fail), FALSE)

\* one encodeToYAMLFile call of generateDiscoveredNamespacedYAMLs (the objects
\* of the discovery client are parsed JSON, no runtime.Object)
generateSupportBundleYAMLs_Discovered ==
    /\ AtItem("discovered")
    /\ \E fail \in EncodeFailures(FALSE) :
          Exported(fail, encodeToYAMLFile(fail), FALSE)

\* GetAllPodsList(ns) of generateSupportBundleLogs: a failure is written to
\* errLog and the function returns
generateSupportBundleLogs_PodList ==
    /\ AtItem("podlist")
    /\ \E fail \in {Nil, "list", "no pod list"} :
          Exported(fail, IF fail # Nil THEN 1 ELSE 0, fail # Nil)

\* the log of one container: req.Stream, then streamLogToFile
generateSupportBundleLogs_Container ==
    /\ AtItem("log")
    /\ \E fail \in {Nil, "stream", "mkdir", "create", "copy"} :
          Exported(fail, IF fail = "stream" THEN 1 ELSE streamLogToFile(fail), FALSE)

\* return bundleName, nil; phaseCollectClusterBundle stores the name
GenerateClusterBundle_Return ==
    /\ ctl = "cb_return"
    /\ ret' = Nil
    /\ bundleFileName' = "supportbundle.zip"
    /\ ctl' = "phase_ret"
    /\ UNCHANGED clusterVars
    /\ ClusterUnchanged

\* --------------------------------------------------- phaseCollectNodeBundles
\* phaseCollectNodeBundles returning the error of collectNodeBundles
phaseCollectNodeBundles_Propagate(err) == err

\* phaseCollectNodeBundles logs the error of collectNodeBundles and returns nil
phaseCollectNodeBundles(err) == Nil

\* m.ch = make(chan struct{})
collectNodeBundles_MakeChan ==
    /\ ctl = "nb_makech"
    /\ ch' = "chan"
    /\ ctl' = "nb_list"
    /\ UNCHANGED <<config, phaseIdx, ret, status, context, serverStarted, bundleFileName, archive>>
    /\ UNCHANGED <<done, nodesLock, expectedNodes, listed, toInsert, agents>>
    /\ UNCHANGED <<handlerVars, histVars>>

\* refreshNodes without the test for an empty node list
refreshNodes_Error_NoEmptyTest(items, err) == err

\* the error refreshNodes returns for the result (items, err) of GetNodesListByLabels
refreshNodes_Error(items, err) ==
    IF err # Nil THEN err
    ELSE IF Cardinality(items) = 0 THEN ErrNoNodes
    ELSE Nil

\* refreshNodes up to m.expectedNodes = make(map[string]string); written without nodesLock
refreshNodes_List ==
    /\ ctl = "nb_list"
    /\ \E items \in SUBSET Nodes, err \in {Nil, ErrListNodes} :
          LET e == refreshNodes_Error(items, err) IN
          /\ listed' = IF err = Nil THEN Some(items) ELSE listed
          /\ IF e # Nil
                THEN /\ ret' = phaseCollectNodeBundles(e)
                     /\ ctl' = "phase_ret"
                     /\ UNCHANGED <<expectedNodes, toInsert>>
                ELSE /\ ret' = ret
                     /\ expectedNodes' = {}
                     /\ toInsert' = items
                     /\ ctl' = IF items = {} THEN "nb_create" ELSE "nb_fill"
    /\ UNCHANGED <<config, phaseIdx, status, context, serverStarted, bundleFileName, archive>>
    /\ UNCHANGED <<ch, done, nodesLock, agents>>
    /\ UNCHANGED <<handlerVars, histVars>>

\* one iteration of the loop m.expectedNodes[node.Name] = "", written without nodesLock
refreshNodes_Insert ==
    /\ ctl = "nb_fill"
    /\ \E n \in toInsert :
          /\ expectedNodes' = expectedNodes \cup {n}
          /\ toInsert' = toInsert \ {n}
          /\ ctl' = IF toInsert = {n} THEN "nb_create" ELSE "nb_fill"
    /\ UNCHANGED <<config, phaseIdx, ret, status, context, serverStarted, bundleFileName, archive>>
    /\ UNCHANGED <<ch, done, nodesLock, listed, agents>>
    /\ UNCHANGED <<handlerVars, histVars>>

\* agents.Create(...): the daemonset is created, or the API rejects it
collectNodeBundles_Create ==
    /\ ctl = "nb_create"
    /\ \E err \in {Nil, ErrCreateAgents} :
          IF err # Nil
             THEN /\ agents' = "create_failed"
                  /\ ret' = phaseCollectNodeBundles(err)
                  /\ ctl' = "phase_ret"
             ELSE /\ agents' = "created"
                  /\ ret' = ret
                  /\ ctl' = "nb_wait"
    /\ UNCHANGED <<config, phaseIdx, status, context, serverStarted, bundleFileName, archive>>
    /\ UNCHANGED <<ch, done, nodesLock, expectedNodes, listed, toInsert>>
    /\ UNCHANGED <<handlerVars, histVars>>

\* <-m.ch: completes together with the send of the upload handler h
collectNodeBundles_Receive ==
    /\ ctl = "nb_wait"
    /\ \E h \in Uploads :
          /\ hpc[h] = "send"
          /\ hpc' = [hpc EXCEPT ![h] = "sent"]
    /\ received' = Some([expected |-> expectedNodes, called |-> called])
    /\ ctl' = "nb_cleanup"
    /\ UNCHANGED <<config, phaseIdx, ret, status, context, serverStarted, bundleFileName, archive>>
    /\ UNCHANGED <<trackVars, hnode, hfile, hremoved, entered, sendCount, removedCount, called, rejected, recordVars>>

\* agents.Cleanup() after the receive
collectNodeBundles_Cleanup ==
    /\ ctl = "nb_cleanup"
    /\ \E err \in {Nil, ErrCleanup} :
          /\ agents' = IF err = Nil THEN "deleted" ELSE "delete_failed"
          /\ ret' = phaseCollectNodeBundles(err)
    /\ ctl' = "phase_ret"
    /\ UNCHANGED <<config, phaseIdx, status, context, serverStarted, bundleFileName, archive>>
    /\ UNCHANGED <<ch, done, nodesLock, expectedNodes, listed, toInsert>>
    /\ UNCHANGED <<handlerVars, histVars>>

\* ------------------------------------------------------------ phasePackaging
\* compressBundle recording the file name before the size lookup succeeded
compressBundle_FileinfoBeforeStat ==
    /\ ctl = "packaging"
    /\ \E outcome \in {"rename_failed", "zip_failed", "stat_failed", "ok"} :
          /\ archive' = IF outcome \in {"stat_failed", "ok"} THEN archive + 1 ELSE archive
          /\ ret' = CASE outcome = "rename_failed" -> "fail to compress bundle"
                      [] outcome = "zip_failed" -> "fail to compress bundle"
                      [] outcome = "stat_failed" -> "fail to get bundle file size"
                      [] outcome = "ok" -> Nil
          /\ status' = IF outcome \in {"stat_failed", "ok"}
                           THEN SetFileinfo(status, bundleFileName, IF outcome = "ok" THEN 1 ELSE 0)
                           ELSE status
    /\ ctl' = "phase_ret"
    /\ UNCHANGED <<config, phaseIdx, context, serverStarted, bundleFileName>>
    /\ UNCHANGED <<trackVars, handlerVars, histVars>>

\* compressBundle: rename, zip -r, stat, SetFileinfo
compressBundle ==
    /\ ctl = "packaging"
    /\ \E outcome \in {"rename_failed", "zip_failed", "stat_failed", "ok"} :
          /\ archive' = IF outcome \in {"stat_failed", "ok"} THEN archive + 1 ELSE archive
          /\ ret' = CASE outcome = "rename_failed" -> "fail to compress bundle"
                      [] outcome = "zip_failed" -> "fail to compress bundle"
                      [] outcome = "stat_failed" -> "fail to get bundle file size"
                      [] outcome = "ok" -> Nil
          /\ status' = IF outcome = "ok" THEN SetFileinfo(status, bundleFileName, 1) ELSE status
    /\ ctl' = "phase_ret"
    /\ UNCHANGED <<config, phaseIdx, context, serverStarted, bundleFileName>>
    /\ UNCHANGED <<trackVars, handlerVars, histVars>>

\* ----------------------------------------------------------------- phaseDone
phaseDone ==
    /\ ctl = "phase_done"
    /\ ret' = Nil
    /\ ctl' = "phase_ret"
    /\ UNCHANGED <<config, phaseIdx, status, context, serverStarted, bundleFileName, archive>>
    /\ UNCHANGED <<trackVars, handlerVars, histVars>>

\* ------------------------------------------------------------ upload handler
\* the process is running: Run has neither returned nor panicked
Alive == ctl \notin {"returned", "crashed"}

Files == {"zip", "empty"}

\* verifyNodeBundle that never reports an error
verifyNodeBundle_Accept(file) == Nil

\* verifyNodeBundle: the error of zip.OpenReader(file)
verifyNodeBundle(file) == IF file = "zip" THEN Nil ELSE ErrZipReader

\* a node bundle upload arrives at the HTTP server: the handler stores the file and
\* verifies it; a rejected upload is answered with an error, a verified one goes on
\* to call completeNode(node)
NodeBundleUpload(h) ==
    /\ Alive
    /\ serverStarted
    /\ hpc[h] = "idle"
    /\ \A g \in Uploads : g < h => hpc[g] # "idle"
    /\ \E n \in NodeNames, f \in Files :
          /\ hfile' = [hfile EXCEPT ![h] = f]
          /\ IF verifyNodeBundle(f) # Nil
             THEN /\ hpc' = [hpc EXCEPT ![h] = "rejected"]
                  /\ rejected' = rejected \cup ({n} \cap expectedNodes)
                  /\ UNCHANGED <<hnode, called>>
             ELSE /\ hpc' = [hpc EXCEPT ![h] = "lock"]
                  /\ hnode' = [hnode EXCEPT ![h] = n]
                  /\ called' = called \cup ({n} \cap Nodes)
                  /\ UNCHANGED rejected
    /\ UNCHANGED <<ctlVars, config, trackVars, hremoved>>
    /\ UNCHANGED <<entered, sendCount, received, removedCount, recordVars>>

\* m.nodesLock.Lock(), then _, ok := m.expectedNodes[node]: delete if ok, else warn
\* about an unknown node
completeNode_Delete(h) ==
    /\ Alive
    /\ hpc[h] = "lock"
    /\ nodesLock = 0
    /\ nodesLock' = h
    /\ IF hnode[h] \in expectedNodes
          THEN /\ expectedNodes' = expectedNodes \ {hnode[h]}
               /\ removedCount' = [removedCount EXCEPT ![hnode[h]] = @ + 1]
               /\ hremoved' = [hremoved EXCEPT ![h] = TRUE]
          ELSE UNCHANGED <<expectedNodes, removedCount, hremoved>>
    /\ hpc' = [hpc EXCEPT ![h] = "check"]
    /\ UNCHANGED <<ctlVars, config, ch, done, listed, toInsert, agents>>
    /\ UNCHANGED <<hnode, hfile, entered, sendCount, received, called, rejected, recordVars>>

\* the test before the send, without the m.done guard
completeNode_ShouldSend_NoGuard(exp, d) == Cardinality(exp) = 0

\* if len(m.expectedNodes) == 0 { if !m.done { ... } }
completeNode_ShouldSend(exp, d) == Cardinality(exp) = 0 /\ ~d

\* the two tests; either the send m.ch <- struct{}{} starts (on a nil channel it
\* blocks forever), or the deferred Unlock runs and completeNode returns
completeNode_Check(h) ==
    /\ Alive
    /\ hpc[h] = "check"
    /\ IF completeNode_ShouldSend(expectedNodes, done)
          THEN /\ hpc' = [hpc EXCEPT ![h] = IF ch = "nil" THEN "send_nil" ELSE "send"]
               /\ sendCount' = sendCount + 1
               /\ UNCHANGED <<nodesLock, hnode, hremoved>>
          ELSE /\ hpc' = [hpc EXCEPT ![h] = "returned"]
               /\ hnode' = [hnode EXCEPT ![h] = UnknownNode]
               /\ hremoved' = [hremoved EXCEPT ![h] = FALSE]
               /\ sendCount' = sendCount
               /\ nodesLock' = 0
    /\ UNCHANGED <<ctlVars, config, ch, done, expectedNodes, listed, toInsert, agents>>
    /\ UNCHANGED <<hfile, entered, received, removedCount, called, rejected, recordVars>>

\* after the send completed: m.done = true and the deferred Unlock
completeNode_Done(h) ==
    /\ Alive
    /\ hpc[h] = "sent"
    /\ done' = TRUE
    /\ nodesLock' = 0
    /\ hpc' = [hpc EXCEPT ![h] = "returned"]
    /\ hnode' = [hnode EXCEPT ![h] = UnknownNode]
    /\ hremoved' = [hremoved EXCEPT ![h] = FALSE]
    /\ UNCHANGED <<ctlVars, config, ch, expectedNodes, listed, toInsert, agents>>
    /\ UNCHANGED <<hfile, histVars>>

\* ------------------------------------------------------------ specification
Control ==
    \/ Run_SetPhase
    \/ Run_PhaseFailed
    \/ Run_PhaseSucceeded
    \/ Run_ContextNil
    \/ Run_ContextDone
    \/ phaseInit_Check
    \/ phaseInit_Clients
    \/ phaseInit_State
    \/ phaseCollectClusterBundle
    \/ collectNodeBundles_MakeChan
    \/ refreshNodes_List
    \/ refreshNodes_Insert
    \/ collectNodeBundles_Create
    \/ collectNodeBundles_Receive
    \/ collectNodeBundles_Cleanup
    \/ compressBundle
    \/ phaseDone

Handler(h) ==
    \/ completeNode_Delete(h)
    \/ completeNode_Check(h)
    \/ completeNode_Done(h)

Next ==
    \/ Control
    \/ Shutdown
    \/ \E h \in Uploads : NodeBundleUpload(h)
    \/ \E h \in Uploads : Handler(h)

Spec == Init /\ [][Next]_vars

\* the ClusterBundle phase of Run, with GenerateClusterBundle step by step
ClusterNext ==
    \/ GenerateClusterBundle_Lookups
    \/ GenerateClusterBundle_Metadata
    \/ generateSupportBundleYAMLs_List
    \/ generateSupportBundleYAMLs_Discovered
    \/ generateSupportBundleLogs_PodList
    \/ generateSupportBundleLogs_Container
    \/ GenerateClusterBundle_Return
    \/ Run_PhaseFailed
    \/ Run_PhaseSucceeded

ClusterSpec == ClusterInit /\ [][ClusterNext]_vars

\* the Go scheduler runs every goroutine that can take a step; uploads and the
\* shutdown signal come from outside and need not happen
FairSpec ==
    /\ Spec
    /\ WF_vars(Control)
    /\ \A h \in Uploads : WF_vars(Handler(h))

TypeOK ==
    /\ config \in Configs
    /\ phaseIdx \in 1..NumPhases
    /\ context \in {"nil", "active", "cancelled"}
    /\ serverStarted \in BOOLEAN
    /\ ch \in {"nil", "chan"}
    /\ done \in BOOLEAN
    /\ nodesLock \in {0} \cup Uploads
    /\ expectedNodes \subseteq Nodes
    /\ toInsert \subseteq Nodes
    /\ agents \in {"none", "created", "create_failed", "deleted", "delete_failed"}
    /\ hnode \in [Uploads -> NodeNames]
    /\ hfile \in [Uploads -> Files]
    /\ hremoved \in [Uploads -> BOOLEAN]
    /\ sendCount \in 0..MaxUploads
    /\ status.progress \in 0..100

\* ------------------------------------------------------------------ claims
Entered(p) == \E i \in 1..Len(entered) : entered[i] = p
InCompleteNode(h) == hpc[h] \in {"lock", "check", "send", "send_nil", "sent"}
Sending(h) == hpc[h] \in {"send", "send_nil", "sent"}
TornDown == agents \in {"deleted", "delete_failed"}

\* C1: once the control thread waits for the node bundles (<-m.ch), the wait
\* eventually ends, also when no node or only some of the nodes upload (here
\* from a state in which the agents were created and no upload has arrived,
\* and unless the process is shut down).
C1_WaitEventuallyEnds ==
    (ctl = "nb_wait" /\ \A h \in Uploads : hpc[h] = "idle")
        ~> (ctl # "nb_wait" \/ context = "cancelled")

\* C2: if every expected node has uploaded a verified bundle (completeNode was
\* called for it) by the time the wait returns, the expected node set is empty
\* when the wait returns.
C2_AllUploadedThenEmpty ==
    (received # None /\ listed # None /\ listed[1] \subseteq received[1].called)
        => received[1].expected = {}

C5_TeardownOnlyWhenAllReported ==
    TornDown => (received # None /\ received[1].expected = {})

\* C6: the completion signal is sent at most once per run, every node is
\* deleted from the expected set at most once, and once m.done is set no
\* completeNode call is sending.
C6_SignalAtMostOnce ==
    /\ sendCount <= 1
    /\ \A n \in NodeNames : removedCount[n] <= 1
    /\ done => \A h \in Uploads : ~Sending(h)

C6_Witness ==
    /\ done /\ sendCount = 1 /\ expectedNodes = {}
    /\ \E h \in Uploads : hpc[h] = "check"

\* C7: every completeNode call eventually releases the lock and returns
\* (unless the process is shut down).
C7_CompleteNodeReturns ==
    \A h \in Uploads : InCompleteNode(h) ~> (hpc[h] = "returned" \/ context = "cancelled")

\* C8: the completion signal is raised (the send on m.ch completes) only by a
\* completeNode call that deleted its node from the expected set.
C8_SignalOnlyByRemoval == \A h \in Uploads : hpc[h] = "sent" => hremoved[h]

\* C9: an upload of a file that is no zip archive is rejected: completeNode is
\* not called for it, and the expected set, m.done, the lock and the signal are
\* left as they are.
C9_InvalidUploadRejected ==
    [][\A h \in Uploads :
          (hpc[h] = "idle" /\ hpc'[h] # "idle" /\ hfile'[h] # "zip") =>
              /\ hpc'[h] = "rejected"
              /\ UNCHANGED <<expectedNodes, done, nodesLock, sendCount, called>>]_vars

\* a node's upload was rejected while it was expected, a later verified upload
\* of the node deleted it, and the wait ended with the set empty
C9_Witness ==
    \E n \in rejected :
        /\ removedCount[n] = 1
        /\ received # None /\ received[1].expected = {}

\* C10: once a phase returned an error, the error is in the status, the status
\* phase is the failed phase (the last one entered), the progress is that of
\* the phases before it, and the control thread has left the phase loop.
C10_ErrorStopsMachine ==
    status.error # "" =>
        /\ ctl \in {"run_ctx", "returned", "crashed"}
        /\ ret = Nil
        /\ Len(entered) = phaseIdx
        /\ status.phase = Phases[phaseIdx]
        /\ status.phase = entered[Len(entered)]
        /\ status.progress = Progress(phaseIdx - 1)
        /\ \A i \in 1..Len(entered) : entered[i] = Phases[i]

C10_Witness ==
    /\ status.error # "" /\ status.phase = "Packaging"
    /\ status.progress = 60 /\ ctl = "returned"

Terminal == ctl \in {"run_ctx", "returned", "crashed"}
InNodeBundle == ctl \in {"nb_makech", "nb_list", "nb_fill", "nb_create", "nb_wait", "nb_cleanup"}
IsPrefix(s, t) == Len(s) <= Len(t) /\ \A i \in 1..Len(s) : s[i] = t[i]

\* C11: the phases are entered in the order Init, ClusterBundle, NodeBundle,
\* Packaging, Done, each at most once and each only after the phase before it
\* succeeded; the archive is produced at most once, in the Packaging phase,
\* after the NodeBundle phase has ended.
C11_PhaseOrder ==
    /\ IsPrefix(entered, Phases)
    /\ Len(entered) >= 1 => status.progress >= (100 * (Len(entered) - 1)) \div 5
    /\ Len(entered) >= 2 /\ ~Terminal => status.error = ""
    /\ archive <= 1
    /\ archive = 1 =>
          /\ Entered("Packaging") /\ Entered("NodeBundle")
          /\ ~InNodeBundle
          /\ status.progress >= 60
    /\ (ctl = "packaging" \/ archive = 1) => status.phase \in {"Packaging", "Done"}

C11_Witness == archive = 1 /\ entered = Phases /\ ctl = "returned"

\* number of phases that have succeeded, read off the control thread's position
Succeeded ==
    IF ctl = "run_ctx" /\ status.error = "" THEN phaseIdx
    ELSE IF ctl \in {"returned", "crashed"} /\ status.error = "" THEN phaseIdx
    ELSE phaseIdx - 1

\* C12: the progress is an integer in 0..100, it never decreases, it is
\* 100*k/5 once k phases have succeeded, and it is 100 only after Done succeeded.
C12_Progress ==
    /\ [](/\ status.progress \in 0..100
          /\ status.progress = (100 * Succeeded) \div 5
          /\ status.progress = 100 =>
                (entered = Phases /\ status.phase = "Done" /\ status.error = "" /\ Terminal))
    /\ [][status'.progress >= status.progress]_vars

C12_Witness == status.progress = 100 /\ status.phase = "Done" /\ ctl = "run_ctx"

\* C13 as stated: once the status phase is Done or an error is recorded, no
\* field of the status changes.
C13_TerminalOncePhaseDone ==
    [][(status.phase = "Done" \/ status.error # "") => status' = status]_vars

\* C13 amended: once an error is recorded or the Done phase has succeeded
\* (progress 100), no field of the status changes; after the phase is set to
\* Done the only change left is the progress going from 80 to 100.
C13_TerminalOnceFinished ==
    /\ [][(status.error # "" \/ status.progress = 100) => status' = status]_vars
    /\ [][status.phase = "Done" /\ status' # status =>
             (status.progress = 80 /\ status' = SetProgress(status, 100))]_vars

C13_Witness == status.progress = 100 /\ status.phase = "Done" /\ ctl = "returned"

ConfigErrors == {"namespace is not specified", "support bundle name is not specified",
                 "manager pod IP is not specified", "image name is not specified",
                 "image pull policy is not specified"}

MissingInput ==
    \E f \in {"NamespaceList", "BundleName", "ManagerPodIP", "ImageName", "ImagePullPolicy"} :
        config[f] = ""

\* C15: if a required input is missing, Init fails with the error of check():
\* the error is recorded, the HTTP server is never started and no later phase
\* is entered.
C15_MissingInputFailsInit ==
    MissingInput =>
        /\ ~serverStarted
        /\ context = "nil"
        /\ IsPrefix(entered, <<"Init">>)
        /\ ctl \in {"phase_start", "init_check", "phase_ret", "run_ctx", "crashed"}
        /\ ctl = "phase_ret" => ret \in ConfigErrors
        /\ Terminal => (status.error \in ConfigErrors /\ status.phase = "Init"
                           /\ status.progress = 0)

C15_Witness ==
    /\ config.ImagePullPolicy = "" /\ config.ImageName = "set"
    /\ status.error = "image pull policy is not specified" /\ Terminal

\* C16: a failed teardown of the agent workload is not fatal: the NodeBundle
\* phase returns nil, no error is recorded for it and the run goes on to
\* Packaging.
C16_CleanupFailureNotFatal ==
    agents = "delete_failed" =>
        /\ received # None
        /\ ~InNodeBundle
        /\ status.phase = "NodeBundle" =>
              (status.error = "" /\ ret = Nil /\ ctl \in {"phase_ret", "phase_start"})

C16_Witness ==
    /\ agents = "delete_failed" /\ received = Some([expected |-> {}, called |-> called])
    /\ status.phase = "Done" /\ status.progress = 100 /\ status.error = ""

\* C17: the control thread is never writing m.expectedNodes (between
\* make(map) and the last insert of refreshNodes) while a completeNode call is
\* inside its critical section on the same map.
C17_SetAccessUnderLock ==
    ~(ctl = "nb_fill" /\ \E h \in Uploads : hpc[h] = "check")

\* C18: if the context is cancelled while the control thread waits for the
\* node bundles, the control thread eventually leaves the wait (here from a
\* state in which no upload has arrived, so that no handler is blocked).
C18_ShutdownEndsWait ==
    (ctl = "nb_wait" /\ context = "cancelled" /\ \A h \in Uploads : hpc[h] = "idle")
        ~> (ctl # "nb_wait")

\* C19: whenever <-m.ch returns, the expected node set is empty at that moment.
C19_ReceiveImpliesEmpty == received # None => received[1].expected = {}

\* C20: whenever Run has left the phase loop and waits on m.context.Done(),
\* m.context is set, so Run does not panic.
C20_ContextSetAfterLoop ==
    /\ ctl = "run_ctx" => context # "nil"
    /\ ctl # "crashed"

\* GetState returned the state "generating" and no error
ReadGenerating == stateRead = Some([state |-> "generating", err |-> Nil])

\* C21: Init succeeds only if the stored state of the bundle request is
\* "generating": the listener is started and a later phase is entered only
\* after GetState returned "generating" without an error; when GetState
\* returned another state or an error, phaseInit returns an error, Run records
\* it in the status (phase Init, progress 0), the HTTP server is never started
\* and no phase after Init is entered.
C21_InitNeedsGenerating ==
    /\ (serverStarted \/ Len(entered) >= 2) => ReadGenerating
    /\ (stateRead # None /\ ~ReadGenerating) =>
          LET e == IF stateRead[1].err # Nil THEN stateRead[1].err
                                            ELSE "invalid start state" IN
          /\ ~serverStarted
          /\ entered = <<"Init">>
          /\ ctl \in {"phase_ret", "run_ctx", "returned"}
          /\ ctl = "phase_ret" => ret = e
          /\ ctl # "phase_ret" => status.error = e
          /\ status.phase = "Init"
          /\ status.progress = 0
          /\ status.filename = ""

C21_Witness ==
    /\ stateRead = Some([state |-> "ready", err |-> Nil])
    /\ status.error = "invalid start state"
    /\ status.phase = "Init"
    /\ ctl = "returned"

\* the last export item processed failed
ItemFailed == last # None /\ last[1].op # "lookup" /\ last[1].failure # Nil

\* the part of C22 about what makes the phase fail: the ClusterBundle phase
\* returns an error only when one of the four lookups failed, never after an
\* export item failed
C22_OnlyLookupFailuresFail ==
    /\ (ctl = "phase_ret" /\ ret # Nil) =>
          /\ last # None
          /\ last[1].op = "lookup"
          /\ last[1].failure \in ClusterBundleErrors
    /\ ItemFailed => (ret = Nil /\ status.error = "")
    /\ status.error # "" => (last # None /\ last[1].op = "lookup")

\* the part of C22 about the error log: an export item that failed has written
\* a line to the error log
C22_ItemFailureIsLogged == ItemFailed => last[1].lines > 0

\* the part of C22 about the remaining resources: GenerateClusterBundle returns
\* only after every export item has been attempted
C22_ExportContinues ==
    (errLog # None /\ ctl # "cb_export") => cbIdx = Len(WorkLists[config]) + 1

\* C22: the ClusterBundle phase fails only when the namespace, version or
\* bundle-request lookup or the creation of the error log fails; a failure to
\* list, encode or write a resource or a pod log is written to the error log,
\* does not make the phase fail, and the remaining resources are exported.
C22_ItemFailureTolerated ==
    /\ C22_OnlyLookupFailuresFail
    /\ C22_ItemFailureIsLogged
    /\ C22_ExportContinues

====
